---- MODULE Spec2Model ----
(***************************************************************************)
(* Task-Analyzer backend: the scoring core (tasks/scoring.py) and the two  *)
(* request handlers built on it (tasks/views.py).                          *)
(*                                                                         *)
(* Representation.                                                         *)
(*  - A task is a record (a Python dict).  The optional keys "id" and      *)
(*    "dependencies" are either in its DOMAIN or not, as in the dict.      *)
(*  - A date is its day number; today is the day the request starts, and   *)
(*    each call of date.today() returns it or, after midnight, the next.   *)
(*  - estimated_hours is a float in the code.  The model holds it as a     *)
(*    whole number of half hours (1 stands for 0.5 h, 6 for 3 h).          *)
(*  - Floats are IEEE doubles, computed bit for bit.  A score, which the   *)
(*    code rounds to 3 decimals, is held as a whole number of thousandths  *)
(*    (6375 stands for the float nearest to 6.375).                        *)
(***************************************************************************)
EXTENDS Integers, Sequences, FiniteSets

VARIABLES request_data, tasks, pc, out, calls

vars == <<request_data, tasks, pc, out, calls>>

\* Largest number of tasks in a batch.
MaxTasks == 3

(***************************************************************************)
(* Sequence helpers                                                        *)
(***************************************************************************)
Range(s) == {s[i] : i \in DOMAIN s}

\* Python's "x in list"
InList(x, s) == \E i \in DOMAIN s : s[i] = x

\* list.index(x): position (1-based here) of the first occurrence of x
IndexOf(s, x) == CHOOSE i \in DOMAIN s : s[i] = x /\ \A j \in 1..(i - 1) : s[j] # x

\* dict.get(key) or default, for the two optional list/int keys of a task
HasKey(t, k) == k \in DOMAIN t

(***************************************************************************)
(* scoring.py: detect_circular_dependencies                                *)
(***************************************************************************)

\* tid = int(t.get("id") or (idx + 1)); i is the 1-based position, so idx + 1 = i.
\* A missing id and the id 0 are both falsy in Python and fall back to the position.
TaskKey(t, i) == IF HasKey(t, "id") /\ t.id # 0 THEN t.id ELSE i

\* deps_raw = t.get("dependencies") or []
DepsRaw(t) == IF HasKey(t, "dependencies") THEN t.dependencies ELSE <<>>

\* seen_deps: the dependency ids in order of first occurrence, duplicates dropped
RECURSIVE SeenDeps(_, _, _)
SeenDeps(deps_raw, k, seen_deps) ==
    IF k > Len(deps_raw) THEN seen_deps
    ELSE SeenDeps(deps_raw, k + 1,
                  IF InList(deps_raw[k], seen_deps) THEN seen_deps
                  ELSE Append(seen_deps, deps_raw[k]))

\* The adjacency dict: keys in insertion order, adj the value stored under each key.
\* graph[tid] = seen_deps keeps the position of a key that is already there and
\* replaces its value.
EmptyGraph == [keys |-> <<>>, adj |-> <<>>]

GraphSet(graph, tid, seen_deps) ==
    IF InList(tid, graph.keys)
    THEN [graph EXCEPT !.adj[IndexOf(graph.keys, tid)] = seen_deps]
    ELSE [keys |-> Append(graph.keys, tid), adj |-> Append(graph.adj, seen_deps)]

RECURSIVE BuildGraph(_, _, _)
BuildGraph(ts, i, graph) ==
    IF i > Len(ts) THEN graph
    ELSE BuildGraph(ts, i + 1,
                    GraphSet(graph, TaskKey(ts[i], i), SeenDeps(DepsRaw(ts[i]), 1, <<>>)))

\* graph.get(node, [])
GraphGet(graph, node) ==
    IF InList(node, graph.keys) THEN graph.adj[IndexOf(graph.keys, node)] ELSE <<>>

\* min(range(len(cycle) - 1), key=lambda i: cycle[i]): first position of the
\* smallest of the entries before the closing one
MinIdx(cycle) ==
    CHOOSE i \in 1..(Len(cycle) - 1) :
        /\ \A j \in 1..(Len(cycle) - 1) : cycle[i] <= cycle[j]
        /\ \A j \in 1..(i - 1) : cycle[j] # cycle[i]

\* Mutant of Canonical: the cycle is kept as the traversal found it
CanonicalUnrotated(cycle) == cycle

\* ordered = cycle[min_idx:-1] + cycle[:min_idx] + [cycle[min_idx]]
Canonical(cycle) ==
    IF Len(cycle) > 1
    THEN LET m == MinIdx(cycle)
         IN  SubSeq(cycle, m, Len(cycle) - 1) \o SubSeq(cycle, 1, m - 1) \o <<cycle[m]>>
    ELSE cycle

\* Mutant of BackEdgeCycle: the whole stack is taken, not the slice from the node
BackEdgeCycleWholeStack(stack, node) == stack \o <<node>>

\* cycle = stack[idx_in_stack:] + [node]
BackEdgeCycle(stack, node) ==
    SubSeq(stack, IndexOf(stack, node), Len(stack)) \o <<node>>

\* dfs(node).  The closure's variables visited, cycles and seen_cycles travel in
\* st; stack is the DFS stack at the time of the call (stack.append before the
\* loop over the neighbours, stack.pop after it).
RECURSIVE dfs(_, _, _, _)
RECURSIVE dfsNeighbours(_, _, _, _, _)
dfs(graph, node, stack, st) ==
    IF InList(node, stack)
    THEN LET ordered == Canonical(BackEdgeCycle(stack, node))
         IN  IF ordered \notin st.seen_cycles
             THEN [st EXCEPT !.seen_cycles = @ \cup {ordered},
                             !.cycles = Append(@, ordered)]
             ELSE st
    ELSE IF node \in st.visited
    THEN st
    ELSE dfsNeighbours(graph, GraphGet(graph, node), 1, Append(stack, node),
                       [st EXCEPT !.visited = @ \cup {node}])

dfsNeighbours(graph, nbrs, k, stack, st) ==
    IF k > Len(nbrs) THEN st
    ELSE dfsNeighbours(graph, nbrs, k + 1, stack, dfs(graph, nbrs[k], stack, st))

\* for n in list(graph.keys()): if n not in visited: dfs(n)
RECURSIVE dfsAll(_, _, _)
dfsAll(graph, k, st) ==
    IF k > Len(graph.keys) THEN st
    ELSE dfsAll(graph, k + 1,
                IF graph.keys[k] \notin st.visited
                THEN dfs(graph, graph.keys[k], <<>>, st)
                ELSE st)

detect_circular_dependencies(ts) ==
    dfsAll(BuildGraph(ts, 1, EmptyGraph), 1,
           [visited |-> {}, cycles |-> <<>>, seen_cycles |-> {}]).cycles

(***************************************************************************)
(* scoring.py: urgency, effort score, composite priority                   *)
(***************************************************************************)

\* The date at the start of the request, as a day number.  date.today() is read
\* anew in every call that needs it and returns this date or, when midnight
\* passes while the request is handled, the day after.
today == 10

ClockReads == {today, today + 1}

\* The dates n successive calls of date.today() return: the clock never goes back
ClockRuns(n) ==
    {c \in [1..n -> ClockReads] : \A i, j \in 1..n : i < j => c[i] <= c[j]}

\* _ensure_date on a date instance (what validated data carries): returned unchanged
ensure_date(d) == d

\* Mutant of calculate_urgency: no branch for days_left < 0
calculate_urgency_no_overdue(due_date, clock) ==
    LET days_left == due_date - clock
    IN  IF days_left = 0 THEN 9
        ELSE IF days_left <= 3 THEN 7
        ELSE IF days_left <= 7 THEN 5
        ELSE 3

\* calculate_urgency; clock is what date.today() returns in this call.  The
\* results 10.0, 9.0, ... are whole floats, held as their integers.
calculate_urgency(due_date, clock) ==
    LET days_left == due_date - clock
    IN  IF days_left < 0 THEN 10
        ELSE IF days_left = 0 THEN 9
        ELSE IF days_left <= 3 THEN 7
        ELSE IF days_left <= 7 THEN 5
        ELSE 3

(***************************************************************************)
(* Python floats (IEEE 754 binary64, round to nearest, ties to even).      *)
(* A float x >= 0 is [m1, m0, e] with x = (m1 * 2^27 + m0) * 2^e, where    *)
(* the 53-bit mantissa is split in two words, 2^25 <= m1 < 2^26 and        *)
(* 0 <= m0 < 2^27; 0.0 has m1 = m0 = 0.  No value here is subnormal or     *)
(* overflows.  An exact intermediate result is a wide number               *)
(* <<w2, w1, w0, s>>: three words, most significant first, and a sticky    *)
(* bit s = 1 when something non-zero lies below the last word.             *)
(***************************************************************************)
WordBase == 2^27

LimbBase == 2^14

\* The number of bits of n >= 0 (n.bit_length()), by halving the search
RECURSIVE IntBitLen(_)
IntBitLen(n) ==
    IF n < 2 THEN n
    ELSE IF n >= 2^16 THEN 16 + IntBitLen(n \div 2^16)
    ELSE IF n >= 2^8 THEN 8 + IntBitLen(n \div 2^8)
    ELSE IF n >= 2^4 THEN 4 + IntBitLen(n \div 2^4)
    ELSE IF n >= 2^2 THEN 2 + IntBitLen(n \div 2^2)
    ELSE 2

Sticky(b) == IF b THEN 1 ELSE 0

FloatZero == [m1 |-> 0, m0 |-> 0, e |-> 0]

IsZero(x) == x.m1 = 0 /\ x.m0 = 0

\* floor(w / 2^d), anything shifted out kept in the sticky bit
RECURSIVE WideShr(_, _)
WideShr(w, d) ==
    IF d = 0 THEN w
    ELSE IF d >= 27
    THEN WideShr(<<0, w[1], w[2], Sticky(w[4] = 1 \/ w[3] # 0)>>, d - 27)
    ELSE <<w[1] \div 2^d,
           (w[2] \div 2^d) + (w[1] % 2^d) * 2^(27 - d),
           (w[3] \div 2^d) + (w[2] % 2^d) * 2^(27 - d),
           Sticky(w[4] = 1 \/ w[3] % 2^d # 0)>>

\* Carries of the two low words of t taken up (the top word may grow past 2^27)
WideCarry(t) ==
    <<t[1] + ((t[2] + (t[3] \div WordBase)) \div WordBase),
      (t[2] + (t[3] \div WordBase)) % WordBase,
      t[3] % WordBase,
      t[4]>>

\* w * n for 0 <= n <= 15
WideMulSmall(w, n) == WideCarry(<<w[1] * n, w[2] * n, w[3] * n, w[4]>>)

\* The mantissa m1, m0 plus one unit in the last place
FloatNext(m1, m0, e) ==
    IF m0 + 1 < WordBase THEN [m1 |-> m1, m0 |-> m0 + 1, e |-> e]
    ELSE IF m1 + 1 < 2^26 THEN [m1 |-> m1 + 1, m0 |-> 0, e |-> e]
    ELSE [m1 |-> 2^25, m0 |-> 0, e |-> e + 1]

\* Round to nearest, ties to even: low is the first bit dropped below the
\* mantissa, rest says whether anything non-zero lies below that bit
FloatNearest(m1, m0, low, rest, e) ==
    IF low = 1 /\ (rest \/ m0 % 2 = 1) THEN FloatNext(m1, m0, e)
    ELSE [m1 |-> m1, m0 |-> m0, e |-> e]

\* The float nearest to w * 2^e, for a wide w whose top word has k - 1 bits
\* (k >= 2): the top 53 bits of the 54 + k - 1, rounded by the k bits below them
FloatRoundBits(w, e, k) ==
    IF k = 28
    THEN FloatNearest(w[1] \div 2, (w[1] % 2) * 2^26 + (w[2] \div 2),
                      w[2] % 2, w[3] # 0 \/ w[4] = 1, e + k)
    ELSE FloatNearest((w[2] \div 2^k) + w[1] * 2^(27 - k),
                      (w[3] \div 2^k) + (w[2] % 2^k) * 2^(27 - k),
                      (w[3] % 2^k) \div 2^(k - 1),
                      w[3] % 2^(k - 1) # 0 \/ w[4] = 1, e + k)

\* How many high words of w are 0
WideLead(w) == IF w[1] # 0 THEN 0 ELSE IF w[2] # 0 THEN 1 ELSE IF w[3] # 0 THEN 2 ELSE 3

\* w with its n high words (all 0) dropped and 0 words put below: w * 2^(27 * n)
WideUp(w, n) ==
    IF n = 0 THEN w
    ELSE IF n = 1 THEN <<w[2], w[3], 0, w[4]>>
    ELSE <<w[3], 0, 0, w[4]>>

\* The float nearest to w * 2^e, for w # 0 with n high words 0 (the sticky bit
\* is 0 unless n = 0)
FloatRoundFrom(w, e, n) ==
    FloatRoundBits(WideUp(w, n), e - 27 * n, IntBitLen(WideUp(w, n)[1]) + 1)

\* The float nearest to w * 2^e
FloatRound(w, e) ==
    IF WideLead(w) = 3 THEN FloatZero ELSE FloatRoundFrom(w, e, WideLead(w))

\* float(n) for an int 0 <= n < 2^27
FloatOfInt(n) == FloatRound(<<0, 0, n, 0>>, 0)

\* The four 14-bit limbs of a mantissa, least significant first
Limbs(x) ==
    <<x.m0 % LimbBase,
      (x.m0 \div LimbBase) + (x.m1 % 2) * 2^13,
      (x.m1 \div 2) % LimbBase,
      x.m1 \div 2^15>>

\* The column sums of the limb products of a * b, least significant first
MulColumns(a, b) ==
    <<a[1] * b[1],
      a[1] * b[2] + a[2] * b[1],
      a[1] * b[3] + a[2] * b[2] + a[3] * b[1],
      a[1] * b[4] + a[2] * b[3] + a[3] * b[2] + a[4] * b[1],
      a[2] * b[4] + a[3] * b[3] + a[4] * b[2],
      a[3] * b[4] + a[4] * b[3],
      a[4] * b[4]>>

\* The limbs of the number whose columns are c, from column i on, with the carry
\* of the columns before
RECURSIVE MulLimbs(_, _, _)
MulLimbs(c, i, carry) ==
    IF i > Len(c) THEN <<carry>>
    ELSE <<(c[i] + carry) % LimbBase>> \o MulLimbs(c, i + 1, (c[i] + carry) \div LimbBase)

\* The bits 31 and up of an 8-limb product p (below 2^106) as a wide number
MulWide(p) ==
    <<(p[7] \div 2) + p[8] * 2^13,
      (p[5] \div 4) + p[6] * 2^12 + (p[7] % 2) * 2^26,
      (p[3] \div 8) + p[4] * 2^11 + (p[5] % 4) * 2^25,
      Sticky(p[1] # 0 \/ p[2] # 0 \/ p[3] % 8 # 0)>>

\* x * y: the exact product of the mantissas, rounded
FloatMul(x, y) ==
    IF IsZero(x) \/ IsZero(y) THEN FloatZero
    ELSE FloatRound(MulWide(MulLimbs(MulColumns(Limbs(x), Limbs(y)), 1, 0)),
                    x.e + y.e + 31)

\* The sum of the mantissa of x and the wide number t, which is aligned 27 bits
\* below it
AddWide(x, t) ==
    <<x.m1 + t[1] + ((x.m0 + t[2]) \div WordBase), (x.m0 + t[2]) % WordBase, t[3], t[4]>>

\* x + y for x.e >= y.e, neither 0: y is brought to the exponent of x with 27 bits
\* more below, and the exact sum rounded
FloatAddOrdered(x, y) ==
    FloatRound(AddWide(x, WideShr(<<y.m1, y.m0, 0, 0>>, x.e - y.e)), x.e - 27)

\* x + y
FloatAdd(x, y) ==
    IF IsZero(x) THEN y
    ELSE IF IsZero(y) THEN x
    ELSE FloatAddOrdered(IF x.e >= y.e THEN x ELSE y, IF x.e >= y.e THEN y ELSE x)

\* How many quotient bits one division step yields: the most of 27, 9, 3, 1
\* for which r * 2^k < q * 2^k stays below 2^31
QuotientStep(q) == IF q <= 2^4 THEN 27 ELSE IF q <= 2^22 THEN 9 ELSE IF q <= 2^28 THEN 3 ELSE 1

\* The fraction r / q (0 <= r < q < 2^30) by long division, QuotientStep(q) bits
\* at a time: words holds the 27-bit words found so far, most significant first,
\* acc the n bits found of the next word; stops after 3 words, with the remainder
RECURSIVE QuotientWords(_, _, _, _, _)
QuotientWords(r, q, words, acc, n) ==
    IF Len(words) = 3 THEN [words |-> words, rem |-> r]
    ELSE IF n = 27 THEN QuotientWords(r, q, Append(words, acc), 0, 0)
    ELSE QuotientWords((r * 2^QuotientStep(q)) % q, q, words,
                       acc * 2^QuotientStep(q) + ((r * 2^QuotientStep(q)) \div q),
                       n + QuotientStep(q))

\* The float nearest to whole + f, f a fraction from QuotientWords
FloatOfQuotient(whole, f) ==
    IF whole # 0
    THEN FloatRound(<<whole, f.words[1], f.words[2],
                      Sticky(f.words[3] # 0 \/ f.rem # 0)>>, 0 - 54)
    ELSE FloatRound(<<f.words[1], f.words[2], f.words[3], Sticky(f.rem # 0)>>, 0 - 81)

\* The float nearest to p / q for ints 0 <= p and 0 < q < 2^30 with
\* 2^-27 <= p / q < 2^27: float(p) / float(q) when both are exact, and the value
\* of a decimal literal such as 0.4 = 4 / 10
FloatDivInt(p, q) == FloatOfQuotient(p \div q, QuotientWords(p % q, q, <<>>, 0, 0))

\* t / 2 for a wide t below 2^27, rounded to the nearest whole number, a tie to
\* the even one
HalfToEven(t) ==
    (t[3] \div 2)
        + (IF t[3] % 2 = 1 /\ (t[4] = 1 \/ (t[3] \div 2) % 2 = 1) THEN 1 ELSE 0)

\* round(x, 3) in thousandths, for 2^-53 < x < 2^26 / 1000: x * 1000 rounded to
\* the nearest whole number, a tie (of the float's exact binary value) to the
\* even one
RoundThousandths(x) ==
    HalfToEven(WideShr(WideMulSmall(WideMulSmall(WideMulSmall(
                           <<0, x.m1, x.m0, 0>>, 10), 10), 10),
                       (0 - x.e) - 1))

\* calculate_effort_score: 10.0 / (h + 1.0).  hours is in half hours, so h = hours/2
\* and h + 1.0 = (hours + 2)/2 are exact floats, and the quotient is the float
\* nearest to 20 / (hours + 2).
calculate_effort_score(hours) == FloatDivInt(20, hours + 2)

\* Mutant of dependency_count: counts the distinct dependency ids, as the cycle
\* detector's deduplicated graph does
dependency_count_deduplicated(task) == Len(SeenDeps(DepsRaw(task), 1, <<>>))

\* dependency_count = len(task.get("dependencies") or [])
dependency_count(task) == Len(DepsRaw(task))

\* calculate_priority: the score, rounded to 3 decimals, in thousandths.  The sum
\* is taken in floats from left to right as Python does; clock is what
\* date.today() returns in the call of calculate_urgency.
calculate_priority(task, all_tasks, weights, clock) ==
    LET due == ensure_date(task.due_date)
        urgency == FloatOfInt(calculate_urgency(due, clock))
        importance == FloatOfInt(IF HasKey(task, "importance") THEN task.importance ELSE 1)
        effort_score == calculate_effort_score(
                            IF HasKey(task, "estimated_hours") THEN task.estimated_hours ELSE 0)
        score == FloatAdd(FloatAdd(FloatAdd(FloatMul(weights.urgency, urgency),
                                            FloatMul(weights.importance, importance)),
                                   FloatMul(weights.effort, effort_score)),
                          FloatMul(weights.dependency, FloatOfInt(dependency_count(task))))
    IN  RoundThousandths(score)

(***************************************************************************)
(* views.py                                                                *)
(***************************************************************************)

\* DEFAULT_WEIGHTS: the floats of the literals 0.4, 0.4, 0.15 and 0.05
DEFAULT_WEIGHTS ==
    [urgency |-> FloatDivInt(4, 10), importance |-> FloatDivInt(4, 10),
     effort |-> FloatDivInt(15, 100), dependency |-> FloatDivInt(5, 100)]

\* dict(t) with one more key (item['score'] = score, t['id'] = i + 1, ...)
WithKey(t, k, v) == [f \in DOMAIN t \cup {k} |-> IF f = k THEN v ELSE t[f]]

\* assign_ids: a task without the key 'id' gets its 1-based position
assign_ids(ts) ==
    [i \in DOMAIN ts |-> IF HasKey(ts[i], "id") THEN ts[i] ELSE WithKey(ts[i], "id", i)]

\* score_tasks: each task copied and extended with its score, in input order;
\* clocks[i] is what date.today() returns in the call for task i
score_tasks(ts, weights, clocks) ==
    [i \in DOMAIN ts |->
        WithKey(ts[i], "score", calculate_priority(ts[i], ts, weights, clocks[i]))]

\* TaskInputSerializer: the fields of one task that fail validation.  title,
\* due_date, estimated_hours and importance are required, estimated_hours has
\* min_value 0, importance min_value 1 and max_value 10.
field_errors(t) ==
    {f \in {"title", "due_date", "estimated_hours", "importance"} : ~HasKey(t, f)}
        \cup (IF HasKey(t, "estimated_hours") /\ t.estimated_hours < 0
              THEN {"estimated_hours"} ELSE {})
        \cup (IF HasKey(t, "importance") /\ t.importance \notin 1..10
              THEN {"importance"} ELSE {})

\* serializer.is_valid() with many=True
is_valid(data) == \A i \in DOMAIN data : field_errors(data[i]) = {}

\* Response(data, status=...)
Response(data, status) == [status |-> status, data |-> data]

HTTP_200_OK == 200
HTTP_400_BAD_REQUEST == 400

\* Mutant of check_and_respond_cycles: the cycles are computed and ignored
check_and_respond_cycles_ignored(ts) ==
    LET cycles == detect_circular_dependencies(ts) IN <<>>

\* check_and_respond_cycles: None is the empty sequence, a response a sequence of one
check_and_respond_cycles(ts) ==
    LET cycles == detect_circular_dependencies(ts)
    IN  IF cycles # <<>>
        THEN << Response([error |-> "Circular dependencies detected", cycles |-> cycles],
                         HTTP_400_BAD_REQUEST) >>
        ELSE <<>>

\* sorted(items, key=lambda x: x['score'], reverse=True): Python's sort is stable
\* also under reverse=True, so items of equal score keep their input order.
RECURSIVE InsertByScore(_, _, _)
InsertByScore(item, sorted, k) ==
    IF k > Len(sorted) \/ sorted[k].score < item.score
    THEN SubSeq(sorted, 1, k - 1) \o <<item>> \o SubSeq(sorted, k, Len(sorted))
    ELSE InsertByScore(item, sorted, k + 1)

RECURSIVE SortedFrom(_, _, _)
SortedFrom(items, k, sorted) ==
    IF k > Len(items) THEN sorted
    ELSE SortedFrom(items, k + 1, InsertByScore(items[k], sorted, 1))

sorted_by_score_desc(items) == SortedFrom(items, 1, <<>>)

\* _parse_date_safe on a date instance: the date itself
parse_date_safe(d) == d

\* The explanation of SuggestTasks.post for one scored task.  ' · '.join(parts) is
\* kept as the sequence of its parts, a part with a number as <<text, number, text>>.
explanation_parts(t, clock) ==
    LET days_left == parse_date_safe(t.due_date) - clock
        due_part == IF days_left < 0 THEN << <<"Overdue">> >>
                    ELSE IF days_left = 0 THEN << <<"Due today">> >>
                    ELSE IF days_left <= 3 THEN << <<"Due in ", days_left, " day(s)">> >>
                    ELSE <<>>
        importance_part == IF (IF HasKey(t, "importance") THEN t.importance ELSE 0) >= 8
                           THEN << <<"High importance">> >> ELSE <<>>
        \* est <= 2 hours, in half hours; a missing value stands for 999 h
        effort_part == IF HasKey(t, "estimated_hours") /\ t.estimated_hours <= 4
                       THEN << <<"Quick win (low effort)">> >> ELSE <<>>
        deps == DepsRaw(t)
        deps_part == IF deps # <<>> THEN << <<"Blocks ", Len(deps), " task(s)">> >> ELSE <<>>
    IN  due_part \o importance_part \o effort_part \o deps_part

explanation(t, clock) ==
    IF explanation_parts(t, clock) # <<>> THEN explanation_parts(t, clock)
    ELSE << <<"Balanced factors">> >>

\* The loop over scored in SuggestTasks.post: each task gets its explanation.
\* clocks holds the dates of the request: one read per task in score_tasks, then
\* one per task here.
explain_tasks(scored, clocks) ==
    [i \in DOMAIN scored |->
        WithKey(scored[i], "explanation",
                explanation(scored[i], clocks[Len(scored) + i]))]

\* items[:3]
FirstThree(items) == SubSeq(items, 1, IF Len(items) < 3 THEN Len(items) ELSE 3)

\* The calls of the scoring core that a handler makes, in order
CallDetect == <<"detect_circular_dependencies">>
CallsScore(ts) == [i \in DOMAIN ts |-> "calculate_priority"]

(***************************************************************************)
(* Specification SpecDetect: detect_circular_dependencies applied to a     *)
(* batch whose tasks all carry an id, ids pairwise distinct.               *)
(***************************************************************************)
DetectIds == {0, 1, 2, 3}

\* Dependency lists: none, one id, several ids, a repeated id, and an id (-1)
\* that no task of a batch has.
DetectDeps == {<<>>, <<0>>, <<1>>, <<2>>, <<3>>, <<2, 3>>, <<1, 1>>, <<-1>>}

DetectTasks == [id : DetectIds, dependencies : DetectDeps]

InitDetect ==
    /\ \E n \in 1..MaxTasks : tasks \in [1..n -> DetectTasks]
    /\ \A i, j \in DOMAIN tasks : i # j => tasks[i].id # tasks[j].id
    /\ request_data = tasks
    /\ pc = "ready"
    /\ out = <<>>
    /\ calls = <<>>

DetectStep ==
    /\ pc = "ready"
    /\ out' = detect_circular_dependencies(tasks)
    /\ pc' = "detected"
    /\ UNCHANGED <<request_data, tasks, calls>>

NextDetect == DetectStep

SpecDetect == InitDetect /\ [][NextDetect]_vars

(***************************************************************************)
(* The dependency graph of a batch, as the claims speak of it: an edge     *)
(* from each task's id to each id in its dependency list.                  *)
(***************************************************************************)
TaskIds(ts) == {ts[i].id : i \in DOMAIN ts}

DependsOn(ts, a, b) ==
    \E i \in DOMAIN ts : ts[i].id = a /\ b \in Range(DepsRaw(ts[i]))

\* The adjacency dict as a relation: does key a list b?
Lists(graph, a, b) == b \in Range(GraphGet(graph, a))

\* Sequences of pairwise distinct elements of S, at least one element
DistinctSeqs(S) ==
    {p \in UNION {[1..n -> S] : n \in 1..Cardinality(S)} :
        \A i, j \in DOMAIN p : i # j => p[i] # p[j]}

\* The elementary cycles over the nodes S of the relation Edge, each written from
\* its smallest node and closed by repeating it ([n, n] for a self-loop).
ElementaryCycles(S, Edge(_, _)) ==
    {p \o <<p[1]>> : p \in {q \in DistinctSeqs(S) :
        /\ \A i \in DOMAIN q : q[1] <= q[i]
        /\ \A i \in DOMAIN q : Edge(q[i], q[(i % Len(q)) + 1])}}

\* Cycles of the dependency graph of the batch (a cycle only runs through ids of
\* tasks: an id that no task has has no outgoing edge)
BatchCycles(ts) == LET E(a, b) == DependsOn(ts, a, b) IN ElementaryCycles(TaskIds(ts), E)

\* Cycles of the adjacency dict the detector built
GraphCycles(graph) == LET E(a, b) == Lists(graph, a, b) IN ElementaryCycles(Range(graph.keys), E)

(***************************************************************************)
(* Claims about detect_circular_dependencies (specification SpecDetect)    *)
(***************************************************************************)

\* C2: for a batch with pairwise distinct integer ids, the detector returns the
\* empty list if and only if the dependency graph (an edge from each task id to
\* each of its dependency ids, self-loops included) has no cycle.
C2_EmptyIffAcyclic ==
    pc = "detected" => ((out = <<>>) <=> (BatchCycles(tasks) = {}))

\* C3 as claimed: every elementary cycle of the dependency graph is in the
\* returned list in its canonical form.  Stated for the batches whose ids are all
\* non-zero, where the detector files every task under its own id.
C3_AllCyclesReported ==
    (pc = "detected" /\ 0 \notin TaskIds(tasks))
        => \A c \in BatchCycles(tasks) : InList(c, out)

\* C3 as amended: every returned entry is an elementary cycle of the adjacency
\* dict the detector built, in canonical form, no entry is returned twice, and
\* the list is non-empty whenever that dict has a cycle.
C3_ReportedAreCycles ==
    pc = "detected" =>
        LET cyc == GraphCycles(BuildGraph(tasks, 1, EmptyGraph))
        IN  /\ \A k \in DOMAIN out : out[k] \in cyc
            /\ \A k, l \in DOMAIN out : k # l => out[k] # out[l]
            /\ (cyc # {}) => (out # <<>>)

\* C3 witness: two cycles share the nodes 1 and 3; 1 -> 2 -> 3 -> 1 is reported
\* and 1 -> 3 -> 1 is not.
C3_Witness ==
    /\ pc = "detected"
    /\ tasks = << [id |-> 1, dependencies |-> <<2, 3>>],
                  [id |-> 2, dependencies |-> <<3>>],
                  [id |-> 3, dependencies |-> <<1>>] >>
    /\ out = << <<1, 2, 3, 1>> >>
    /\ <<1, 3, 1>> \in BatchCycles(tasks)

\* C4: a task with a non-zero id n that lists n among its dependencies makes the
\* detector return a list containing the one-element cycle [n].
C4_SelfDependencyIsOneElement ==
    pc = "detected" =>
        \A i \in DOMAIN tasks :
            (tasks[i].id # 0 /\ tasks[i].id \in Range(DepsRaw(tasks[i])))
                => InList(<<tasks[i].id>>, out)

\* The 3-cycle 1 -> 2 -> 3 -> 1, its three tasks in any order
IsThreeCycle(ts) ==
    /\ Len(ts) = 3
    /\ TaskIds(ts) = {1, 2, 3}
    /\ \A i \in DOMAIN ts : ts[i].dependencies = <<(ts[i].id % 3) + 1>>

\* C5: for the 3-cycle 1 -> 2 -> 3 -> 1, whatever the order of the three tasks in
\* the batch, the detector returns exactly one cycle, [1, 2, 3, 1].
C5_ThreeCycleCanonical ==
    (pc = "detected" /\ IsThreeCycle(tasks)) => out = << <<1, 2, 3, 1>> >>

\* C5 witness: the traversal starts at node 3 and still reports [1, 2, 3, 1].
C5_Witness ==
    /\ pc = "detected"
    /\ IsThreeCycle(tasks)
    /\ tasks[1].id = 3
    /\ out = << <<1, 2, 3, 1>> >>

(***************************************************************************)
(* Specification SpecScore: calculate_priority applied, with the default   *)
(* weights, to each task of a pair of tasks (as tasks/tests.py does).      *)
(***************************************************************************)
\* Due dates: long overdue, overdue by a day, today, and one in each later bucket
ScoreDues == {today - 30, today - 1, today, today + 1, today + 5, today + 8}

\* 0 h, 0.5 h, 3 h and 7 h, in half hours.  With 7 h the exact score is a tie at
\* the 4th decimal and the float's last bit decides the rounding.
ScoreHours == {0, 1, 6, 14}

ScoreImportances == {1, 5, 10}

\* No dependency, one, a repeated id (no task of the pair has an id, so these
\* are ids of no task)
ScoreDeps == {<<>>, <<2>>, <<2, 2>>}

ScoreTasks ==
    [title : {"A"}, due_date : ScoreDues, estimated_hours : ScoreHours,
     importance : ScoreImportances, dependencies : ScoreDeps]

InitScore ==
    /\ tasks \in [1..2 -> ScoreTasks]
    /\ request_data = tasks
    /\ pc = "ready"
    /\ out = <<>>
    /\ calls = <<>>

PriorityStep ==
    /\ pc = "ready"
    /\ \E clocks \in ClockRuns(Len(tasks)) :
           out' = [i \in DOMAIN tasks |->
                      calculate_priority(tasks[i], tasks, DEFAULT_WEIGHTS, clocks[i])]
    /\ pc' = "prioritized"
    /\ UNCHANGED <<request_data, tasks, calls>>

NextScore == PriorityStep

SpecScore == InitScore /\ [][NextScore]_vars

\* Two tasks that agree on every key but k
SameExcept(t1, t2, k) ==
    /\ DOMAIN t1 = DOMAIN t2
    /\ \A f \in DOMAIN t1 \ {k} : t1[f] = t2[f]

\* C8: of two tasks identical except for the due date, one overdue and the other
\* due after today, the overdue one gets the strictly greater score (also when
\* midnight passes between the two calls: the task due after today is then due
\* today at the earliest, urgency 9 against 10).
C8_OverdueOutscoresFuture ==
    pc = "prioritized" =>
        \A i, j \in DOMAIN tasks :
            ( /\ SameExcept(tasks[i], tasks[j], "due_date")
              /\ tasks[i].due_date < today
              /\ tasks[j].due_date > today )
                => out[i] > out[j]

\* C8 witness: the case of tests.py scaled to the drawn dates (3 h, importance 5,
\* no dependency): overdue scores 6.375, due in 5 days 4.375.
C8_Witness ==
    /\ pc = "prioritized"
    /\ SameExcept(tasks[1], tasks[2], "due_date")
    /\ tasks[1].due_date = today - 1 /\ tasks[2].due_date = today + 5
    /\ tasks[1].estimated_hours = 6 /\ tasks[1].importance = 5
    /\ tasks[1].dependencies = <<>>
    /\ out = <<6375, 4375>>

\* C9: of two tasks identical except for their dependency lists (all else equal,
\* the date the two calls read included), the one with the longer list (raw
\* length: repeated ids and ids of no task count) gets the strictly greater
\* score, whichever date it is.
C9_MoreDependenciesOutscore ==
    pc = "prioritized" =>
        \A i, j \in DOMAIN tasks :
            ( /\ SameExcept(tasks[i], tasks[j], "dependencies")
              /\ Len(tasks[i].dependencies) > Len(tasks[j].dependencies) )
                => \A clock \in ClockReads :
                       calculate_priority(tasks[i], tasks, DEFAULT_WEIGHTS, clock)
                           > calculate_priority(tasks[j], tasks, DEFAULT_WEIGHTS, clock)

\* C9 witness: the list [2, 2] (a repeated id) against [2], both scored on the
\* same date: 0.05 more.
C9_Witness ==
    /\ pc = "prioritized"
    /\ SameExcept(tasks[1], tasks[2], "dependencies")
    /\ tasks[1].dependencies = <<2, 2>> /\ tasks[2].dependencies = <<2>>
    /\ \E clock \in ClockReads :
           /\ out[1] = calculate_priority(tasks[1], tasks, DEFAULT_WEIGHTS, clock)
           /\ out[2] = calculate_priority(tasks[2], tasks, DEFAULT_WEIGHTS, clock)
    /\ out[1] = out[2] + 50

(***************************************************************************)
(* Specification Spec: one request to POST /tasks/analyze or               *)
(* POST /tasks/suggest.  request_data is the validated batch, tasks the    *)
(* list the handler works on (assign_ids writes the ids into it), out the  *)
(* response, calls the calls made to the scoring core.                     *)
(***************************************************************************)
RequestIds == {0, 1}

RequestDeps == {<<1>>, <<2>>}

\* Overdue, 0.5 h, importance 8
Quick == [title |-> "A", due_date |-> today - 1, estimated_hours |-> 1, importance |-> 8]

\* Due in 4 days, 7 h, importance 5: its urgency and explanation change at
\* midnight, and its exact score 4.1875 is a tie at the 4th decimal
Long == [title |-> "A", due_date |-> today + 4, estimated_hours |-> 14, importance |-> 5]

\* A task that fails validation: importance 11
InvalidTask ==
    [title |-> "A", due_date |-> today - 1, estimated_hours |-> 1, importance |-> 11]

\* Tasks of a request body: id and dependencies are optional
RequestTasks ==
    {InvalidTask, Quick, Long, WithKey(WithKey(Quick, "id", 0), "dependencies", <<1>>)}
        \cup {WithKey(Quick, "id", i) : i \in RequestIds}
        \cup {WithKey(Long, "dependencies", d) : d \in RequestDeps}

Init ==
    /\ \E n \in 0..MaxTasks : request_data \in [1..n -> RequestTasks]
    /\ tasks = request_data
    /\ pc = "ready"
    /\ out = <<>>
    /\ calls = <<>>

\* serializer.is_valid(raise_exception=True) on an invalid body: the handler
\* raises, and the framework answers 400 with the errors of each task
RejectInvalid ==
    /\ out' = Response([i \in DOMAIN request_data |-> field_errors(request_data[i])],
                       HTTP_400_BAD_REQUEST)
    /\ calls' = <<>>
    /\ pc' = "invalid"
    /\ UNCHANGED <<request_data, tasks>>

\* AnalyzeTasks.post
AnalyzePost ==
    /\ pc = "ready"
    /\ IF ~is_valid(request_data) THEN RejectInvalid
       ELSE
        /\ LET ts == assign_ids(tasks)
               cycle_resp == check_and_respond_cycles(ts)
           IN  /\ tasks' = ts
               /\ IF cycle_resp # <<>>
                  THEN /\ out' = cycle_resp[1]
                       /\ calls' = CallDetect
                  ELSE \E clocks \in ClockRuns(Len(ts)) :
                       /\ out' = Response(sorted_by_score_desc(
                                              score_tasks(ts, DEFAULT_WEIGHTS, clocks)),
                                          HTTP_200_OK)
                       /\ calls' = CallDetect \o CallsScore(ts)
        /\ pc' = "analyzed"
        /\ UNCHANGED request_data

\* SuggestTasks.post.  date.today() is read once per task in score_tasks and then
\* once per task for the explanation.
SuggestPost ==
    /\ pc = "ready"
    /\ IF ~is_valid(request_data) THEN RejectInvalid
       ELSE
        /\ LET ts == assign_ids(tasks)
               cycle_resp == check_and_respond_cycles(ts)
           IN  /\ tasks' = ts
               /\ IF cycle_resp # <<>>
                  THEN /\ out' = cycle_resp[1]
                       /\ calls' = CallDetect
                  ELSE \E clocks \in ClockRuns(2 * Len(ts)) :
                       /\ out' = Response(
                              [top_3 |-> FirstThree(sorted_by_score_desc(
                                  explain_tasks(score_tasks(ts, DEFAULT_WEIGHTS, clocks),
                                                clocks)))],
                              HTTP_200_OK)
                       /\ calls' = CallDetect \o CallsScore(ts)
        /\ pc' = "suggested"
        /\ UNCHANGED request_data

Next == AnalyzePost \/ SuggestPost

Spec == Init /\ [][Next]_vars

(***************************************************************************)
(* Claims about the handlers (specification Spec)                          *)
(***************************************************************************)
Handled == pc \in {"analyzed", "suggested"}

\* C1: for analyze and suggest alike, detection is the first call to the scoring
\* core; if it returns a non-empty list the response is a 400 carrying the error
\* and exactly that list and calculate_priority runs for no task; if it returns
\* the empty list the response is a 200 with the scored tasks.
C1_CyclesRejectWholeBatch ==
    Handled =>
        LET cycles == detect_circular_dependencies(tasks)
        IN  /\ calls # <<>>
            /\ calls[1] = "detect_circular_dependencies"
            /\ \A k \in 2..Len(calls) : calls[k] = "calculate_priority"
            /\ IF cycles # <<>>
               THEN /\ out = Response([error |-> "Circular dependencies detected",
                                       cycles |-> cycles], HTTP_400_BAD_REQUEST)
                    /\ "calculate_priority" \notin Range(calls)
               ELSE /\ out.status = HTTP_200_OK
                    /\ Len(calls) = 1 + Len(tasks)
                    /\ LET items == IF pc = "analyzed" THEN out.data ELSE out.data.top_3
                       IN  /\ Len(items) = Len(tasks)
                                \/ (pc = "suggested" /\ Len(items) = 3 /\ Len(tasks) > 3)
                           /\ \A k \in DOMAIN items : HasKey(items[k], "score")

\* C1 witness: a suggest request whose two tasks depend on each other is answered
\* 400 with the cycle [1, 2, 1], and nothing was scored.
C1_Witness ==
    /\ pc = "suggested"
    /\ Len(tasks) = 2
    /\ out.status = HTTP_400_BAD_REQUEST
    /\ out.data.cycles = << <<1, 2, 1>> >>
    /\ calls = CallDetect

\* Permutations of 1..n
IndexPermutations(n) == {f \in [1..n -> 1..n] : \A i, j \in 1..n : i # j => f[i] # f[j]}

\* The scored batches a request can compute: one per run of the clock over the
\* calls of calculate_priority
ScoreRuns(ts) == {score_tasks(ts, DEFAULT_WEIGHTS, c) : c \in ClockRuns(Len(ts))}

\* C6: for every validated batch whose dependency graph has no cycle, analyze
\* answers with one scored entry per input task (a permutation of the input, each
\* task with its own score), in non-increasing order of score.
C6_AnalyzeReturnsAllSorted ==
    (pc = "analyzed" /\ BatchCycles(tasks) = {}) =>
        /\ out.status = HTTP_200_OK
        /\ Len(out.data) = Len(tasks)
        /\ \E scored \in ScoreRuns(tasks) : \E f \in IndexPermutations(Len(tasks)) :
               \A k \in DOMAIN tasks : out.data[k] = scored[f[k]]
        /\ \A k, l \in DOMAIN out.data : k < l => out.data[k].score >= out.data[l].score

\* Task i comes before task j in the ranking: greater score, or equal score and
\* earlier in the input
Outranks(scored, i, j) ==
    \/ scored[i].score > scored[j].score
    \/ scored[i].score = scored[j].score /\ i < j

\* C7: for every validated batch of n tasks whose dependency graph has no cycle,
\* top_3 of suggest holds min(3, n) entries, the highest-scoring tasks in
\* non-increasing order of score, the earlier task first among equal scores.
C7_SuggestTopThree ==
    (pc = "suggested" /\ BatchCycles(tasks) = {}) =>
        /\ out.status = HTTP_200_OK
        /\ Len(out.data.top_3) = (IF Len(tasks) < 3 THEN Len(tasks) ELSE 3)
        /\ \E clocks \in ClockRuns(2 * Len(tasks)) :
           \E f \in [DOMAIN out.data.top_3 -> DOMAIN tasks] :
               LET scored == explain_tasks(score_tasks(tasks, DEFAULT_WEIGHTS, clocks), clocks)
               IN  /\ \A k \in DOMAIN f : out.data.top_3[k] = scored[f[k]]
                   /\ \A k, l \in DOMAIN f : k < l => Outranks(scored, f[k], f[l])
                   /\ \A k \in DOMAIN f : \A j \in DOMAIN tasks :
                          (\A l \in DOMAIN f : f[l] # j) => Outranks(scored, f[k], j)

\* The ids a request supplies
ExplicitIds(ts) == {ts[i].id : i \in {j \in DOMAIN ts : HasKey(ts[j], "id")}}

ExplicitIdsDistinct(ts) ==
    \A i, j \in DOMAIN ts :
        (i # j /\ HasKey(ts[i], "id") /\ HasKey(ts[j], "id")) => ts[i].id # ts[j].id

\* C10: when the supplied ids are pairwise distinct (and non-zero, so that the
\* detector's fallback for the id 0 plays no part) and some tasks omit the id,
\* then after assign_ids every task has an id, no two tasks share one, and the
\* detector files each task under that id.
C10_IdsUniqueAfterAssign ==
    ( /\ Handled
      /\ ExplicitIdsDistinct(request_data)
      /\ 0 \notin ExplicitIds(request_data)
      /\ \E i \in DOMAIN request_data : ~HasKey(request_data[i], "id") )
    =>
        /\ \A i \in DOMAIN tasks : HasKey(tasks[i], "id")
        /\ \A i, j \in DOMAIN tasks : i # j => tasks[i].id # tasks[j].id
        /\ \A i \in DOMAIN tasks : TaskKey(tasks[i], i) = tasks[i].id

\* The ranking part of C6 on the batches the detector passes: analyze answers 200
\* with a permutation of the scored tasks in non-increasing order of score.
AnalyzeSortsPassedBatch ==
    (pc = "analyzed" /\ detect_circular_dependencies(tasks) = <<>>) =>
        /\ out.status = HTTP_200_OK
        /\ \E scored \in ScoreRuns(tasks) : \E f \in IndexPermutations(Len(tasks)) :
               \A k \in DOMAIN tasks : out.data[k] = scored[f[k]]
        /\ \A k, l \in DOMAIN out.data : k < l => out.data[k].score >= out.data[l].score

\* The ranking part of C7 on the batches the detector passes: top_3 is the first
\* min(3, n) tasks of the stable ranking.
SuggestRanksPassedBatch ==
    (pc = "suggested" /\ detect_circular_dependencies(tasks) = <<>>) =>
        /\ out.status = HTTP_200_OK
        /\ Len(out.data.top_3) = (IF Len(tasks) < 3 THEN Len(tasks) ELSE 3)
        /\ \A k, l \in DOMAIN out.data.top_3 :
               k < l => out.data.top_3[k].score >= out.data.top_3[l].score

====
